---- MODULE Spec2Model ----
(***************************************************************************)
(* The proposal / voting ledger of pp-backend: the two Solidity contracts  *)
(* FlowVoting (contracts/flowVoting.sol, votes as msg.sender, one vote per *)
(* address) and HederaVoting (votes on behalf of a named address, keeps    *)
(* the list of voters).  One deployed contract is modelled at a time; the  *)
(* chain's clock (block.timestamp) is advanced by the environment.         *)
(***************************************************************************)
EXTENDS Integers, Sequences, FiniteSets, TLC

VARIABLES contract, now, proposals, hasVoted, voters, proposalCount, events, last

\* A second deployed contract (the other variant, fed the same calls), and
\* the backend of server.js with the create script of
\* scripts/callContractFunctions.js: the chatTopics map, the topics created
\* and the proposal announcements submitted on the consensus service, each
\* HTTP request's position in its handler, the responses sent, the script's
\* position.
VARIABLES peer, chatTopics, topics, topicMessages, requests, responses, script

ledgerVars == <<proposals, hasVoted, voters, proposalCount, events>>
serverVars == <<chatTopics, topics, topicMessages, requests, responses, script>>
vars == <<contract, now, proposals, hasVoted, voters, proposalCount, events, last,
          peer, chatTopics, topics, topicMessages, requests, responses, script>>

(* ------------------------------ bounds --------------------------------- *)
\* MaxCalls: once that many createProposal / vote calls have been accepted
\* (the length of the event log) no further call is made; MaxTime caps the
\* clock.
MaxCalls == 4
MaxTime == 3

(* ------------------------------ inputs --------------------------------- *)
Addresses == {"addrA", "addrB"}
\* The accounts that send createProposal (any account may; one is enough to
\* tell the creator from the zero address and from the other accounts).
Creators == {"addrA"}
ZeroAddress == "0x0"
ParkNames == {"Central Park"}
Messages == {"Replace lawn"}
ParkSizes == {120}
ChatTopicHistories == {"0.0.7001"}
\* Keys of the mappings: 0 is never a proposal id, MaxCalls + 1 is never reached.
Ids == 0 .. (MaxCalls + 1)
Deadlines == 0 .. MaxTime

(* ------------------------- revert reasons ------------------------------ *)
SUCCESS == "SUCCESS"
InvalidDeadline == "Deadline must be in the future"
ProposalNotFound == "Proposal does not exist"
VotingClosed == "Voting period has ended"
DuplicateVote == "Already voted on this proposal"

\* What a caller gets from a contract that has neither the function called
\* nor a fallback function: the call reverts, with no reason string.
UnknownFunction == "function selector not recognized"

NoArgs == <<>>
NoReturn == <<>>

\* The ids a caller tries: every created one, 0 and the first one not created.
CallIds == 0 .. (proposalCount + 1)

(* ------------------------------ storage -------------------------------- *)
\* The value a mapping(uint256 => Proposal) holds for a key never written.
EmptyProposal ==
    [proposalId |-> 0, parkName |-> "", message |-> "", parkSize |-> 0,
     chatTopicHistory |-> "", creator |-> ZeroAddress, yesVotes |-> 0,
     noVotes |-> 0, deadline |-> 0, exists |-> FALSE]

\* JavaScript's null / undefined, and an HTTP request that has not arrived.
Null == "null"
Requests == {"r1", "r2"}
Idle == [pc |-> "idle"]

\* No second contract is deployed.
NoPeer == [contract |-> "none"]

\* The backend at start-up: chatTopics = new Map(), nothing created on the
\* consensus service, no request received, the script not started.
ServerInit ==
    /\ chatTopics = <<>>
    /\ topics = <<>>
    /\ topicMessages = {}
    /\ requests = [r \in Requests |-> Idle]
    /\ responses = [r \in Requests |-> <<>>]
    /\ script = Idle

\* One contract freshly deployed, called directly by its users.
Init ==
    /\ peer = NoPeer
    /\ ServerInit
    /\ contract \in {"FlowVoting", "HederaVoting"}
    /\ now = 1
    /\ proposals = [i \in Ids |-> EmptyProposal]
    /\ hasVoted = [i \in Ids |-> [a \in Addresses |-> FALSE]]
    /\ voters = [i \in Ids |-> <<>>]
    /\ proposalCount = 0
    /\ events = <<>>
    /\ last = [fn |-> "constructor", status |-> SUCCESS, args |-> NoArgs, ret |-> NoReturn]

\* A reverted transaction: the caller sees the reason, storage and log are
\* untouched.
Revert(fn, args, reason) ==
    /\ last' = [fn |-> fn, status |-> reason, args |-> args, ret |-> NoReturn]
    /\ UNCHANGED ledgerVars

\* The outcome of a view call: a revert reason, or SUCCESS and the value.
ViewRevert(reason) == [status |-> reason, ret |-> NoReturn]
ViewReturn(value) == [status |-> SUCCESS, ret |-> value]

\* Mutation: the notification leaves the creator out.
ProposalCreatedAnonymous(id, _parkName, _message, _parkSize, _chatTopicHistory, sender, _deadline) ==
    [type |-> "ProposalCreated", proposalId |-> id, parkName |-> _parkName,
     message |-> _message, parkSize |-> _parkSize,
     chatTopicHistory |-> _chatTopicHistory, creator |-> ZeroAddress,
     deadline |-> _deadline]

ProposalCreated(id, _parkName, _message, _parkSize, _chatTopicHistory, sender, _deadline) ==
    [type |-> "ProposalCreated", proposalId |-> id, parkName |-> _parkName,
     message |-> _message, parkSize |-> _parkSize,
     chatTopicHistory |-> _chatTopicHistory, creator |-> sender,
     deadline |-> _deadline]

VoteCast(id, voter, support) ==
    [type |-> "VoteCast", proposalId |-> id, voter |-> voter, vote |-> support]

CreateArgs(sender, _parkName, _message, _parkSize, _chatTopicHistory, _deadline) ==
    [sender |-> sender, parkName |-> _parkName, message |-> _message,
     parkSize |-> _parkSize, chatTopicHistory |-> _chatTopicHistory,
     deadline |-> _deadline]

VoteArgs(sender, _proposalId, _support, voter) ==
    [sender |-> sender, proposalId |-> _proposalId, support |-> _support,
     voter |-> voter]

(* ============================ FlowVoting =============================== *)

\* Mutation: a deadline equal to the current time is let through.
FlowDeadlineNotPast(_deadline, timestamp) == _deadline >= timestamp

FlowDeadlineInFuture(_deadline, timestamp) == _deadline > timestamp

\* Mutation: the id is read before the counter is incremented.
FlowNewProposalIdStale(count) == count

FlowNewProposalId(count) == count + 1

\* Mutation: the name and the message are stored in each other's field.
FlowNewProposalSwapped(id, _parkName, _message, _parkSize, _chatTopicHistory, sender, _deadline) ==
    [proposalId |-> id, parkName |-> _message, message |-> _parkName,
     parkSize |-> _parkSize, chatTopicHistory |-> _chatTopicHistory,
     creator |-> sender, yesVotes |-> 0, noVotes |-> 0,
     deadline |-> _deadline, exists |-> TRUE]

FlowNewProposal(id, _parkName, _message, _parkSize, _chatTopicHistory, sender, _deadline) ==
    [proposalId |-> id, parkName |-> _parkName, message |-> _message,
     parkSize |-> _parkSize, chatTopicHistory |-> _chatTopicHistory,
     creator |-> sender, yesVotes |-> 0, noVotes |-> 0,
     deadline |-> _deadline, exists |-> TRUE]

FlowCreateProposal(sender, _parkName, _message, _parkSize, _chatTopicHistory, _deadline) ==
    LET args == CreateArgs(sender, _parkName, _message, _parkSize, _chatTopicHistory, _deadline)
        newProposalId == FlowNewProposalId(proposalCount)
    IN  /\ contract = "FlowVoting"
        /\ Len(events) < MaxCalls
        /\ UNCHANGED <<contract, now>>
        /\ IF ~FlowDeadlineInFuture(_deadline, now)
           THEN Revert("createProposal", args, InvalidDeadline)
           ELSE /\ proposalCount' = newProposalId
                /\ proposals' = [proposals EXCEPT ![newProposalId] =
                       FlowNewProposal(newProposalId, _parkName, _message, _parkSize,
                                       _chatTopicHistory, sender, _deadline)]
                /\ events' = Append(events,
                       ProposalCreated(newProposalId, _parkName, _message, _parkSize,
                                       _chatTopicHistory, sender, _deadline))
                /\ last' = [fn |-> "createProposal", status |-> SUCCESS, args |-> args,
                            ret |-> NoReturn]
                /\ UNCHANGED <<hasVoted, voters>>

\* Mutation: the existence check is dropped.
FlowProposalExistsUnchecked(p) == TRUE

FlowProposalExists(p) == p.exists

\* Mutation: voting closes one tick early, at the deadline itself.
FlowVotingOpenStrict(timestamp, deadline) == timestamp < deadline

FlowVotingOpen(timestamp, deadline) == timestamp <= deadline

\* Mutation: the duplicate check is dropped.
FlowNotYetVotedUnchecked(hv, _proposalId, sender) == TRUE

FlowNotYetVoted(hv, _proposalId, sender) == ~hv[_proposalId][sender]

\* Mutation: the whole proposal is marked as voted, not the sender's entry.
FlowRecordVoterAll(hv, _proposalId, sender) ==
    [hv EXCEPT ![_proposalId] = [a \in Addresses |-> TRUE]]

FlowRecordVoter(hv, _proposalId, sender) == [hv EXCEPT ![_proposalId][sender] = TRUE]

\* Mutation: _support is ignored, every vote counts as a yes.
FlowCountYesOnly(p, _support) == [p EXCEPT !.yesVotes = @ + 1]

FlowCount(p, _support) ==
    IF _support THEN [p EXCEPT !.yesVotes = @ + 1]
                ELSE [p EXCEPT !.noVotes = @ + 1]

\* Mutation: the duplicate check runs before the deadline check.
FlowVoteDuplicateFirst(sender, _proposalId, _support) ==
    LET args == VoteArgs(sender, _proposalId, _support, sender)
        p == proposals[_proposalId]
    IN  /\ contract = "FlowVoting"
        /\ Len(events) < MaxCalls
        /\ UNCHANGED <<contract, now>>
        /\ IF ~FlowProposalExists(p)
           THEN Revert("vote", args, ProposalNotFound)
           ELSE IF ~FlowNotYetVoted(hasVoted, _proposalId, sender)
           THEN Revert("vote", args, DuplicateVote)
           ELSE IF ~FlowVotingOpen(now, p.deadline)
           THEN Revert("vote", args, VotingClosed)
           ELSE /\ hasVoted' = FlowRecordVoter(hasVoted, _proposalId, sender)
                /\ proposals' = [proposals EXCEPT ![_proposalId] = FlowCount(p, _support)]
                /\ events' = Append(events, VoteCast(_proposalId, sender, _support))
                /\ last' = [fn |-> "vote", status |-> SUCCESS, args |-> args,
                            ret |-> NoReturn]
                /\ UNCHANGED <<voters, proposalCount>>

FlowVote(sender, _proposalId, _support) ==
    LET args == VoteArgs(sender, _proposalId, _support, sender)
        p == proposals[_proposalId]
    IN  /\ contract = "FlowVoting"
        /\ Len(events) < MaxCalls
        /\ UNCHANGED <<contract, now>>
        /\ IF ~FlowProposalExists(p)
           THEN Revert("vote", args, ProposalNotFound)
           ELSE IF ~FlowVotingOpen(now, p.deadline)
           THEN Revert("vote", args, VotingClosed)
           ELSE IF ~FlowNotYetVoted(hasVoted, _proposalId, sender)
           THEN Revert("vote", args, DuplicateVote)
           ELSE /\ hasVoted' =FlowRecordVoter(hasVoted, _proposalId, sender)
                /\ proposals' = [proposals EXCEPT ![_proposalId] = FlowCount(p, _support)]
                /\ events' = Append(events, VoteCast(_proposalId, sender, _support))
                /\ last' = [fn |-> "vote", status |-> SUCCESS, args |-> args,
                            ret |-> NoReturn]
                /\ UNCHANGED <<voters, proposalCount>>

(* ---- view functions: pure reads of storage and of block.timestamp ---- *)

FlowIsProposalActive(props, timestamp, _proposalId) ==
    LET p == props[_proposalId]
    IN  IF ~p.exists THEN ViewRevert(ProposalNotFound)
        ELSE ViewReturn(timestamp <= p.deadline)

\* Mutation: the existence check is dropped and an empty record is returned.
FlowGetProposalUnchecked(props, timestamp, _proposalId) ==
    LET p == props[_proposalId]
        isActiveNow == timestamp <= p.deadline
    IN  ViewReturn(
          [proposalId |-> p.proposalId, parkName |-> p.parkName,
           message |-> p.message, parkSize |-> p.parkSize,
           chatTopicHistory |-> p.chatTopicHistory, creator |-> p.creator,
           yesVotes |-> p.yesVotes, noVotes |-> p.noVotes,
           deadline |-> p.deadline, active |-> isActiveNow])

FlowGetProposal(props, timestamp, _proposalId) ==
    LET p == props[_proposalId]
        isActiveNow == timestamp <= p.deadline
    IN  IF ~p.exists THEN ViewRevert(ProposalNotFound)
        ELSE ViewReturn(
               [proposalId |-> p.proposalId, parkName |-> p.parkName,
                message |-> p.message, parkSize |-> p.parkSize,
                chatTopicHistory |-> p.chatTopicHistory, creator |-> p.creator,
                yesVotes |-> p.yesVotes, noVotes |-> p.noVotes,
                deadline |-> p.deadline, active |-> isActiveNow])

FlowHasUserVoted(hv, _proposalId, _user) == ViewReturn(hv[_proposalId][_user])

\* FlowVoting keeps no list of voters and declares no getVoters (and no
\* fallback): a getVoters call reverts whatever its argument.
FlowGetVoters(_proposalId) == ViewRevert(UnknownFunction)

FlowIsActiveAt(p, timestamp) == p.exists /\ timestamp <= p.deadline

\* The first loop of getActiveProposals, from index i on: tempActive is the
\* zero-filled array of length count (indices 0 .. count-1), activeCount the
\* number of its slots written so far.
RECURSIVE FlowScanActive(_, _, _, _, _, _)
FlowScanActive(props, count, timestamp, i, tempActive, activeCount) ==
    IF ~(i <= count)
    THEN [tempActive |-> tempActive, activeCount |-> activeCount]
    ELSE IF FlowIsActiveAt(props[i], timestamp)
    THEN FlowScanActive(props, count, timestamp, i + 1,
                        [tempActive EXCEPT ![activeCount] = i], activeCount + 1)
    ELSE FlowScanActive(props, count, timestamp, i + 1, tempActive, activeCount)

\* The second loop: the properly sized array, as a sequence (index j of the
\* array is element j + 1 of the sequence).
\* Mutation: the over-sized scratch array is returned, zero padding included.
FlowCopyActivePadded(tempActive, activeCount) ==
    [j \in 1 .. Cardinality(DOMAIN tempActive) |-> tempActive[j - 1]]

FlowCopyActive(tempActive, activeCount) ==
    [j \in 1 .. activeCount |-> tempActive[j - 1]]

FlowGetActiveProposals(props, count, timestamp) ==
    LET scan == FlowScanActive(props, count, timestamp, 1,
                               [k \in 0 .. (count - 1) |-> 0], 0)
    IN  ViewReturn(FlowCopyActive(scan.tempActive, scan.activeCount))

FlowGetTotalProposals(count) == ViewReturn(count)

(* =========================== HederaVoting ============================== *)

\* Mutation: a deadline equal to the current time is let through.
HederaDeadlineNotPast(_deadline, timestamp) == _deadline >= timestamp

HederaDeadlineInFuture(_deadline, timestamp) == _deadline > timestamp

\* Mutation: the counter is not advanced, the previous id is handed out again.
HederaNewProposalIdReused(count) == IF count = 0 THEN 1 ELSE count

HederaNewProposalId(count) == count + 1

\* Mutation: the record is stored without its id.
HederaNewProposalNoId(id, _parkName, _message, _parkSize, _chatTopicHistory, sender, _deadline) ==
    [proposalId |-> 0, parkName |-> _parkName, message |-> _message,
     parkSize |-> _parkSize, chatTopicHistory |-> _chatTopicHistory,
     creator |-> sender, yesVotes |-> 0, noVotes |-> 0,
     deadline |-> _deadline, exists |-> TRUE]

HederaNewProposal(id, _parkName, _message, _parkSize, _chatTopicHistory, sender, _deadline) ==
    [proposalId |-> id, parkName |-> _parkName, message |-> _message,
     parkSize |-> _parkSize, chatTopicHistory |-> _chatTopicHistory,
     creator |-> sender, yesVotes |-> 0, noVotes |-> 0,
     deadline |-> _deadline, exists |-> TRUE]

HederaCreateProposal(sender, _parkName, _message, _parkSize, _chatTopicHistory, _deadline) ==
    LET args == CreateArgs(sender, _parkName, _message, _parkSize, _chatTopicHistory, _deadline)
        newProposalId == HederaNewProposalId(proposalCount)
    IN  /\ contract = "HederaVoting"
        /\ Len(events) < MaxCalls
        /\ UNCHANGED <<contract, now>>
        /\ IF ~HederaDeadlineInFuture(_deadline, now)
           THEN Revert("createProposal", args, InvalidDeadline)
           ELSE /\ proposalCount' = newProposalId
                /\ proposals' = [proposals EXCEPT ![newProposalId] =
                       HederaNewProposal(newProposalId, _parkName, _message, _parkSize,
                                         _chatTopicHistory, sender, _deadline)]
                /\ events' = Append(events,
                       ProposalCreated(newProposalId, _parkName, _message, _parkSize,
                                       _chatTopicHistory, sender, _deadline))
                /\ last' = [fn |-> "createProposal", status |-> SUCCESS, args |-> args,
                            ret |-> NoReturn]
                /\ UNCHANGED <<hasVoted, voters>>

HederaProposalExists(p) == p.exists

\* Mutation: the deadline check is dropped.
HederaVotingOpenAlways(timestamp, deadline) == TRUE

HederaVotingOpen(timestamp, deadline) == timestamp <= deadline

\* Mutation: a no vote overwrites the count instead of adding to it.
HederaCountLost(p, _support) ==
    IF _support THEN [p EXCEPT !.yesVotes = @ + 1]
                ELSE [p EXCEPT !.noVotes = 1]

HederaCount(p, _support) ==
    IF _support THEN [p EXCEPT !.yesVotes = @ + 1]
                ELSE [p EXCEPT !.noVotes = @ + 1]

\* Mutation: the voter is not stored.
HederaPushVoterDropped(vs, _proposalId, _voter) == vs

\* Mutation: the voter is put at the front of the list.
HederaPushVoterFront(vs, _proposalId, _voter) ==
    [vs EXCEPT ![_proposalId] = <<_voter>> \o @]

HederaPushVoter(vs, _proposalId, _voter) ==
    [vs EXCEPT ![_proposalId] = Append(@, _voter)]

\* Mutation: the vote is recorded and announced for msg.sender.
HederaVoteAsSender(sender, _proposalId, _support, _voter) ==
    LET args == VoteArgs(sender, _proposalId, _support, _voter)
        p == proposals[_proposalId]
    IN  /\ contract = "HederaVoting"
        /\ Len(events) < MaxCalls
        /\ UNCHANGED <<contract, now>>
        /\ IF ~HederaProposalExists(p)
           THEN Revert("vote", args, ProposalNotFound)
           ELSE IF ~HederaVotingOpen(now, p.deadline)
           THEN Revert("vote", args, VotingClosed)
           ELSE /\ proposals' = [proposals EXCEPT ![_proposalId] = HederaCount(p, _support)]
                /\ voters' = HederaPushVoter(voters, _proposalId, sender)
                /\ events' = Append(events, VoteCast(_proposalId, sender, _support))
                /\ last' = [fn |-> "vote", status |-> SUCCESS, args |-> args,
                            ret |-> NoReturn]
                /\ UNCHANGED <<hasVoted, proposalCount>>

\* msg.sender is not read by HederaVoting.vote: whoever sends the transaction,
\* the vote is recorded for _voter.
HederaVote(sender, _proposalId, _support, _voter) ==
    LET args == VoteArgs(sender, _proposalId, _support, _voter)
        p == proposals[_proposalId]
    IN  /\ contract = "HederaVoting"
        /\ Len(events) < MaxCalls
        /\ UNCHANGED <<contract, now>>
        /\ IF ~HederaProposalExists(p)
           THEN Revert("vote", args, ProposalNotFound)
           ELSE IF ~HederaVotingOpen(now, p.deadline)
           THEN Revert("vote", args, VotingClosed)
           ELSE /\ proposals' =[proposals EXCEPT ![_proposalId] = HederaCount(p, _support)]
                /\ voters' = HederaPushVoter(voters, _proposalId, _voter)
                /\ events' = Append(events, VoteCast(_proposalId, _voter, _support))
                /\ last' = [fn |-> "vote", status |-> SUCCESS, args |-> args,
                            ret |-> NoReturn]
                /\ UNCHANGED <<hasVoted, proposalCount>>

HederaGetProposal(props, timestamp, _proposalId) ==
    LET p == props[_proposalId]
        isActiveNow == timestamp <= p.deadline
    IN  IF ~p.exists THEN ViewRevert(ProposalNotFound)
        ELSE ViewReturn(
               [proposalId |-> p.proposalId, parkName |-> p.parkName,
                message |-> p.message, parkSize |-> p.parkSize,
                chatTopicHistory |-> p.chatTopicHistory, creator |-> p.creator,
                yesVotes |-> p.yesVotes, noVotes |-> p.noVotes,
                deadline |-> p.deadline, active |-> isActiveNow])

HederaGetVoters(vs, _proposalId) == ViewReturn(vs[_proposalId])

\* Mutation: a proposal is dropped from the active list at its deadline.
HederaIsActiveAtStrict(p, timestamp) == p.exists /\ timestamp < p.deadline

HederaIsActiveAt(p, timestamp) == p.exists /\ timestamp <= p.deadline

RECURSIVE HederaScanActive(_, _, _, _, _, _)
HederaScanActive(props, count, timestamp, i, tempActive, activeCount) ==
    IF ~(i <= count)
    THEN [tempActive |-> tempActive, activeCount |-> activeCount]
    ELSE IF HederaIsActiveAt(props[i], timestamp)
    THEN HederaScanActive(props, count, timestamp, i + 1,
                          [tempActive EXCEPT ![activeCount] = i], activeCount + 1)
    ELSE HederaScanActive(props, count, timestamp, i + 1, tempActive, activeCount)

HederaCopyActive(tempActive, activeCount) ==
    [j \in 1 .. activeCount |-> tempActive[j - 1]]

HederaGetActiveProposals(props, count, timestamp) ==
    LET scan == HederaScanActive(props, count, timestamp, 1,
                                 [k \in 0 .. (count - 1) |-> 0], 0)
    IN  ViewReturn(HederaCopyActive(scan.tempActive, scan.activeCount))

HederaGetTotalProposals(count) == ViewReturn(count)

(* ===================== the deployed contract's views =================== *)

GetProposal(props, timestamp, _proposalId) ==
    IF contract = "FlowVoting" THEN FlowGetProposal(props, timestamp, _proposalId)
    ELSE HederaGetProposal(props, timestamp, _proposalId)

GetActiveProposals(props, count, timestamp) ==
    IF contract = "FlowVoting" THEN FlowGetActiveProposals(props, count, timestamp)
    ELSE HederaGetActiveProposals(props, count, timestamp)

GetTotalProposals(count) ==
    IF contract = "FlowVoting" THEN FlowGetTotalProposals(count)
    ELSE HederaGetTotalProposals(count)

GetVoters(vs, _proposalId) ==
    IF contract = "FlowVoting" THEN FlowGetVoters(_proposalId)
    ELSE HederaGetVoters(vs, _proposalId)

(* ============================ environment ============================== *)

\* block.timestamp of a later block: the clock only moves forward, and no
\* call is executed while it does.
AdvanceTime ==
    /\ now < MaxTime
    /\ now' \in (now + 1) .. MaxTime
    /\ UNCHANGED <<contract, last>>
    /\ UNCHANGED ledgerVars

Next ==
    \/ /\ \E s \in Creators, n \in ParkNames, m \in Messages, z \in ParkSizes,
             h \in ChatTopicHistories, d \in Deadlines :
             FlowCreateProposal(s, n, m, z, h, d)
       /\ UNCHANGED <<peer, serverVars>>
    \/ /\ \E s \in Addresses, i \in CallIds, b \in BOOLEAN : FlowVote(s, i, b)
       /\ UNCHANGED <<peer, serverVars>>
    \/ /\ \E s \in Creators, n \in ParkNames, m \in Messages, z \in ParkSizes,
             h \in ChatTopicHistories, d \in Deadlines :
             HederaCreateProposal(s, n, m, z, h, d)
       /\ UNCHANGED <<peer, serverVars>>
    \/ /\ \E s \in Addresses, i \in CallIds, b \in BOOLEAN, v \in Addresses :
             HederaVote(s, i, b, v)
       /\ UNCHANGED <<peer, serverVars>>
    \/ /\ AdvanceTime
       /\ UNCHANGED <<peer, serverVars>>

Spec == Init /\ [][Next]_vars

(* ============================== properties ============================= *)

Range(f) == {f[x] : x \in DOMAIN f}

IsProposalCreated(e) == e.type = "ProposalCreated"
IsVoteCast(e) == e.type = "VoteCast"

\* The accepted createProposal calls, in call order, as the log announces them.
CreatedLog == SelectSeq(events, IsProposalCreated)

\* The accepted votes on proposal i (positions in the log).
VotesCastOn(i) ==
    {k \in 1 .. Len(events) : IsVoteCast(events[k]) /\ events[k].proposalId = i}

\* A step that executes a call (the clock stands still while it does); the
\* call and its outcome are then in last'.
CallStep(fn) == now' = now /\ last'.fn = fn

\* C1: the k-th accepted createProposal is assigned id k (1, 2, 3, ... in call
\* order, no gap, no reuse), whatever votes and rejected attempts come between;
\* the counter equals the number of accepted creations.
C1_SequentialIds ==
    /\ \A k \in 1 .. Len(CreatedLog) : CreatedLog[k].proposalId = k
    /\ proposalCount = Len(CreatedLog)

\* Two creations accepted with a vote between them, the second just now.
C1_Witness ==
    /\ Len(CreatedLog) = 2
    /\ Len(events) = 3
    /\ IsVoteCast(events[2])
    /\ last.fn = "createProposal" /\ last.status = SUCCESS
    /\ proposals[2].proposalId = 2

\* C2: createProposal with deadline <= current time is rejected with
\* InvalidDeadline and changes nothing: no id allocated, no proposal stored,
\* no event emitted.
C2_InvalidDeadlineRejected ==
    [][(CallStep("createProposal") /\ last'.args.deadline <= now)
         => (last'.status = InvalidDeadline /\ UNCHANGED ledgerVars)]_vars

\* A creation with deadline = current time was just rejected, after an
\* accepted one.
C2_Witness ==
    /\ last.fn = "createProposal"
    /\ last.status = InvalidDeadline
    /\ last.args.deadline = now
    /\ proposalCount = 1

\* C3: an accepted vote(id, support) moves the tallies getProposal(id) shows
\* by exactly one: yes +1 and no unchanged for support, no +1 and yes
\* unchanged otherwise.
C3_VoteCountsOnce ==
    [][(CallStep("vote") /\ last'.status = SUCCESS)
         => LET id == last'.args.proposalId
                before == GetProposal(proposals, now, id).ret
                after == GetProposal(proposals', now', id).ret
            IN  IF last'.args.support
                THEN after.yesVotes = before.yesVotes + 1 /\ after.noVotes = before.noVotes
                ELSE after.noVotes = before.noVotes + 1 /\ after.yesVotes = before.yesVotes]_vars

\* A no vote was just accepted on a proposal that already had a yes vote.
C3_Witness ==
    /\ last.fn = "vote" /\ last.status = SUCCESS /\ ~last.args.support
    /\ proposals[last.args.proposalId].noVotes = 1
    /\ proposals[last.args.proposalId].yesVotes = 1

\* C4 as stated: in FlowVoting a second vote by the same identity on the same
\* proposal always fails with DuplicateVote and leaves yesVotes, noVotes and
\* hasVoted unchanged.
C4_SecondVoteAlwaysDuplicate ==
    [][(contract = "FlowVoting" /\ CallStep("vote")
          /\ hasVoted[last'.args.proposalId][last'.args.voter])
         => (last'.status = DuplicateVote /\ UNCHANGED <<proposals, hasVoted>>)]_vars

\* C4 (amended): in FlowVoting a second vote by the same identity on the same
\* proposal always fails and leaves yesVotes, noVotes and hasVoted unchanged,
\* with DuplicateVote while the proposal is open and with VotingClosed once
\* its deadline has passed; a vote by that identity on a different open
\* proposal it has not voted on is accepted.
C4_SecondVoteRejected ==
    [][(contract = "FlowVoting" /\ CallStep("vote"))
         => LET id == last'.args.proposalId
                v == last'.args.voter
            IN  /\ hasVoted[id][v]
                     => /\ last'.status = IF now <= proposals[id].deadline
                                          THEN DuplicateVote ELSE VotingClosed
                        /\ UNCHANGED <<proposals, hasVoted>>
                /\ ( /\ \E j \in Ids \ {id} : hasVoted[j][v]
                     /\ proposals[id].exists
                     /\ now <= proposals[id].deadline
                     /\ ~hasVoted[id][v] )
                     => /\ last'.status = SUCCESS
                        /\ hasVoted'[id][v]]_vars

\* A repeated vote was just rejected as a duplicate; the voter's accepted vote
\* on that proposal had the other support value.
C4_Witness ==
    /\ contract = "FlowVoting"
    /\ last.fn = "vote" /\ last.status = DuplicateVote
    /\ hasVoted[last.args.proposalId][last.args.voter]
    /\ \E k \in VotesCastOn(last.args.proposalId) :
          /\ events[k].voter = last.args.voter
          /\ events[k].vote # last.args.support

\* C5: for every proposal yesVotes + noVotes is the number of votes accepted
\* for it: the length of getVoters(id) in HederaVoting, the number of
\* identities with hasUserVoted(id, identity) in FlowVoting.
C5_TallyMatchesVotes ==
    \A i \in Ids :
        LET tally == proposals[i].yesVotes + proposals[i].noVotes
        IN  /\ tally = Cardinality(VotesCastOn(i))
            /\ contract = "HederaVoting"
                 => tally = Len(HederaGetVoters(voters, i).ret)
            /\ contract = "FlowVoting"
                 => tally = Cardinality({a \in Addresses :
                                           FlowHasUserVoted(hasVoted, i, a).ret})

\* A proposal holds a yes and a no vote.
C5_Witness ==
    \E i \in Ids : proposals[i].yesVotes = 1 /\ proposals[i].noVotes = 1

\* C6: vote on an id no proposal was created under (0, or above the number
\* created) is rejected with ProposalNotFound and changes nothing: counter,
\* proposal records, voter list, hasVoted and the event log.
C6_VoteUnknownIdRejected ==
    [][(CallStep("vote")
          /\ ~(\E k \in 1 .. Len(CreatedLog) :
                  CreatedLog[k].proposalId = last'.args.proposalId))
         => (last'.status = ProposalNotFound /\ UNCHANGED ledgerVars)]_vars

\* A vote on the first id not yet created was just rejected.
C6_Witness ==
    /\ last.fn = "vote" /\ last.status = ProposalNotFound
    /\ proposalCount >= 1
    /\ last.args.proposalId = proposalCount + 1

\* C7: in both contracts a vote on an existing proposal at a time strictly
\* after its deadline is rejected with VotingClosed, and a vote at a time
\* equal to the deadline is not rejected with VotingClosed.
C7_VotingClosedAfterDeadline ==
    [][(CallStep("vote") /\ proposals[last'.args.proposalId].exists)
         => LET deadline == proposals[last'.args.proposalId].deadline
            IN  /\ now > deadline => (last'.status = VotingClosed /\ UNCHANGED ledgerVars)
                /\ now = deadline => last'.status # VotingClosed]_vars

\* A vote was just rejected as late on a proposal that had taken a vote while
\* it was open.
C7_Witness ==
    /\ last.fn = "vote" /\ last.status = VotingClosed
    /\ proposals[last.args.proposalId].exists
    /\ now > proposals[last.args.proposalId].deadline
    /\ proposals[last.args.proposalId].yesVotes + proposals[last.args.proposalId].noVotes >= 1

\* hasUserVoted(id, identity) is true exactly for the identities with an
\* accepted vote on id.
HasVotedIsAccepted ==
    contract = "FlowVoting"
      => \A i \in Ids, a \in Addresses :
            FlowHasUserVoted(hasVoted, i, a).ret
              <=> (\E k \in VotesCastOn(i) : events[k].voter = a)

\* A rejected vote leaves hasVoted as it was, and no step resets an entry.
HasVotedStep ==
    /\ (CallStep("vote") /\ last'.status # SUCCESS) => hasVoted' = hasVoted
    /\ \A i \in Ids, a \in Addresses : hasVoted[i][a] => hasVoted'[i][a]

\* C8: in FlowVoting hasVoted(id, identity) is true iff that identity has cast
\* an accepted vote on id; rejected votes never set it and it is never reset.
C8_HasVotedExact == []HasVotedIsAccepted /\ [][HasVotedStep]_vars

\* One identity has voted on proposal 1, the other has not and has just been
\* rejected on another id.
C8_Witness ==
    /\ contract = "FlowVoting"
    /\ hasVoted[1]["addrA"] /\ ~hasVoted[1]["addrB"]
    /\ last.fn = "vote" /\ last.status # SUCCESS /\ last.args.voter = "addrB"

\* The ids that are active at the current time.
ActiveIds ==
    {i \in 1 .. proposalCount : proposals[i].exists /\ now <= proposals[i].deadline}

\* C9: getActiveProposals() returns exactly the ids in 1..proposalCount that
\* exist and have current time <= deadline, each once, in strictly ascending
\* order, in an array as long as there are such ids.
C9_ActiveProposalsExact ==
    LET r == GetActiveProposals(proposals, proposalCount, now)
    IN  /\ r.status = SUCCESS
        /\ DOMAIN r.ret = 1 .. Cardinality(ActiveIds)
        /\ Range(r.ret) = ActiveIds
        /\ \A j \in DOMAIN r.ret : \A k \in DOMAIN r.ret : j < k => r.ret[j] < r.ret[k]

\* Three proposals, the middle one expired: the result is <<1, 3>>.
C9_Witness ==
    /\ proposalCount = 3
    /\ ActiveIds = {1, 3}
    /\ GetActiveProposals(proposals, proposalCount, now).ret = <<1, 3>>

\* C10: when the clock moves from a time <= deadline to a time > deadline,
\* with no call, the proposal's id is in getActiveProposals() before and not
\* after, getProposal(id).active goes from true to false, and storage and
\* log are unchanged.
C10_ExpiryByClockAlone ==
    [][now' > now
         => /\ UNCHANGED ledgerVars
            /\ \A i \in 1 .. proposalCount :
                 (now <= proposals[i].deadline /\ now' > proposals[i].deadline)
                   => /\ i \in Range(GetActiveProposals(proposals, proposalCount, now).ret)
                      /\ i \notin Range(GetActiveProposals(proposals', proposalCount', now').ret)
                      /\ GetProposal(proposals, now, i).ret.active
                      /\ GetProposal(proposals', now', i).status = SUCCESS
                      /\ ~GetProposal(proposals', now', i).ret.active]_vars

\* The clock stands one past the deadline of proposal 1, which is listed no
\* more while proposal 2 still is.
C10_Witness ==
    /\ proposalCount = 2
    /\ now = proposals[1].deadline + 1
    /\ GetActiveProposals(proposals, proposalCount, now).ret = <<2>>
    /\ ~GetProposal(proposals, now, 1).ret.active

\* The id the latest accepted createProposal was assigned, as announced.
LastCreatedId == CreatedLog[Len(CreatedLog)].proposalId

\* C11: getProposal(id) right after the accepted createProposal that assigned
\* id (same current time) returns proposalId = id, the title, description,
\* size, discussionRef and deadline passed in, creator = the caller,
\* yesVotes = noVotes = 0 and active = true.
C11_RoundTrip ==
    [][(CallStep("createProposal") /\ last'.status = SUCCESS)
         => LET id == LastCreatedId'
                a == last'.args
                r == GetProposal(proposals', now', id)
            IN  /\ r.status = SUCCESS
                /\ r.ret = [proposalId |-> id, parkName |-> a.parkName,
                            message |-> a.message, parkSize |-> a.parkSize,
                            chatTopicHistory |-> a.chatTopicHistory,
                            creator |-> a.sender, yesVotes |-> 0, noVotes |-> 0,
                            deadline |-> a.deadline, active |-> TRUE]]_vars

\* The second proposal was just created, after a vote on the first, and reads
\* back with its name and no votes.
C11_Witness ==
    /\ last.fn = "createProposal" /\ last.status = SUCCESS
    /\ proposalCount = 2
    /\ proposals[1].yesVotes = 1
    /\ now < last.args.deadline
    /\ GetProposal(proposals, now, 2).ret.parkName = "Central Park"
    /\ GetProposal(proposals, now, 2).ret.yesVotes = 0

\* The voters of the accepted votes on proposal i, in the order of the log.
VotersAnnounced(i) ==
    LET cast == SelectSeq(events, LAMBDA e : IsVoteCast(e) /\ e.proposalId = i)
    IN  [k \in 1 .. Len(cast) |-> cast[k].voter]

IsPrefix(s, t) == Len(s) <= Len(t) /\ SubSeq(t, 1, Len(s)) = s

\* getVoters(id) is the sequence of the accepted votes' voters, in order.
VotersInOrder ==
    contract = "HederaVoting"
      => \A i \in Ids : HederaGetVoters(voters, i).ret = VotersAnnounced(i)

\* Entries are only appended: each list is a prefix of what it becomes.
VotersAppendOnly ==
    \A i \in Ids : IsPrefix(HederaGetVoters(voters, i).ret,
                            HederaGetVoters(voters', i).ret)

\* C12: in HederaVoting getVoters(id) is exactly the voters of the accepted
\* votes on id in the order they were accepted; entries are only appended,
\* never reordered or removed, and votes on other proposals do not appear.
C12_VotersInOrder == []VotersInOrder /\ [][VotersAppendOnly]_vars

\* vote(1, true, addrA) then vote(1, false, addrB), with a second proposal
\* that took no vote.
C12_Witness ==
    /\ contract = "HederaVoting"
    /\ proposalCount = 2
    /\ HederaGetVoters(voters, 1).ret = <<"addrA", "addrB">>
    /\ proposals[1].yesVotes = 1 /\ proposals[1].noVotes = 1
    /\ events[Len(events)] = VoteCast(1, "addrB", FALSE)
    /\ HederaGetVoters(voters, 2).ret = <<>>

\* C13: an accepted createProposal returns the id it allocated to its caller
\* (the call's return data is that id).
C13_CreateReturnsId ==
    (last.fn = "createProposal" /\ last.status = SUCCESS)
      => last.ret = <<LastCreatedId>>

\* C14: vote reports its first violated precondition: a nonexistent proposal
\* gives ProposalNotFound; an existing proposal past its deadline gives
\* VotingClosed, also when the identity has already voted; DuplicateVote is
\* reported only for an existing, still open proposal the identity has voted
\* on (FlowVoting).
C14_VoteErrorOrder ==
    [][CallStep("vote")
         => LET id == last'.args.proposalId
                p == proposals[id]
            IN  /\ ~p.exists => last'.status = ProposalNotFound
                /\ (p.exists /\ now > p.deadline) => last'.status = VotingClosed
                /\ last'.status = DuplicateVote
                     => /\ contract = "FlowVoting"
                        /\ p.exists
                        /\ now <= p.deadline
                        /\ hasVoted[id][last'.args.voter]]_vars

\* A vote was just rejected as late although its sender had already voted on
\* that proposal.
C14_Witness ==
    /\ contract = "FlowVoting"
    /\ last.fn = "vote" /\ last.status = VotingClosed
    /\ hasVoted[last.args.proposalId][last.args.voter]

\* A proposal whose deadline has passed is reported inactive by both views.
ClosedIsInactive ==
    \A i \in 1 .. proposalCount :
       (proposals[i].exists /\ now > proposals[i].deadline)
         => /\ ~GetProposal(proposals, now, i).ret.active
            /\ i \notin Range(GetActiveProposals(proposals, proposalCount, now).ret)

\* The clock does not go back, and a step leaves a closed proposal closed,
\* with its tallies and its voters as they were.
ClosedStaysClosed ==
    /\ now' >= now
    /\ \A i \in 1 .. proposalCount :
         (proposals[i].exists /\ now > proposals[i].deadline)
           => /\ i <= proposalCount' /\ proposals'[i].exists
              /\ now' > proposals'[i].deadline
              /\ proposals'[i].yesVotes = proposals[i].yesVotes
              /\ proposals'[i].noVotes = proposals[i].noVotes
              /\ voters'[i] = voters[i]
              /\ hasVoted'[i] = hasVoted[i]

\* C15: the clock only advances and, once the current time exceeds a
\* proposal's deadline, the proposal is never active again and no step
\* changes its yesVotes, noVotes or recorded voters.
C15_TalliesFinalAfterClose == []ClosedIsInactive /\ [][ClosedStaysClosed]_vars

\* In HederaVoting a vote on a closed proposal that holds two votes was just
\* turned down.
C15_Witness ==
    /\ contract = "HederaVoting"
    /\ last.fn = "vote" /\ last.status = VotingClosed
    /\ now > proposals[last.args.proposalId].deadline
    /\ Len(voters[last.args.proposalId]) = 2

\* C16: no step deletes a created proposal or changes its id, title,
\* description, size, discussionRef, creator, deadline or exists flag; a step
\* changes an existing record at most by adding one to yesVotes or to noVotes.
C16_ProposalImmutable ==
    [][\A i \in Ids :
         proposals[i].exists
           => LET p == proposals[i]
                  q == proposals'[i]
              IN  /\ q.exists
                  /\ q.proposalId = p.proposalId
                  /\ q.parkName = p.parkName
                  /\ q.message = p.message
                  /\ q.parkSize = p.parkSize
                  /\ q.chatTopicHistory = p.chatTopicHistory
                  /\ q.creator = p.creator
                  /\ q.deadline = p.deadline
                  /\ \/ q = p
                     \/ q = [p EXCEPT !.yesVotes = @ + 1]
                     \/ q = [p EXCEPT !.noVotes = @ + 1]]_vars

\* A second proposal was just created beside a first one that holds a yes and
\* a no vote.
C16_Witness ==
    /\ last.fn = "createProposal" /\ last.status = SUCCESS
    /\ proposalCount = 2
    /\ proposals[1].exists /\ proposals[1].proposalId = 1
    /\ proposals[1].yesVotes = 1 /\ proposals[1].noVotes = 1

\* C17: in HederaVoting every vote on an existing open proposal is accepted,
\* whoever sends it and however often the named identity has voted already;
\* the identity recorded in getVoters and announced in VoteCast is the
\* _voter argument, and each such vote adds one count and one entry.
C17_DelegatedUncheckedVote ==
    [][(contract = "HederaVoting" /\ CallStep("vote")
          /\ proposals[last'.args.proposalId].exists
          /\ now <= proposals[last'.args.proposalId].deadline)
         => LET id == last'.args.proposalId
                a == last'.args
            IN  /\ last'.status = SUCCESS
                /\ HederaGetVoters(voters', id).ret
                     = Append(HederaGetVoters(voters, id).ret, a.voter)
                /\ events' = Append(events, VoteCast(id, a.voter, a.support))
                /\ proposals'[id].yesVotes + proposals'[id].noVotes
                     = proposals[id].yesVotes + proposals[id].noVotes + 1]_vars

\* Three votes naming addrB on one proposal, the last one sent by addrA.
C17_Witness ==
    /\ contract = "HederaVoting"
    /\ last.fn = "vote" /\ last.status = SUCCESS
    /\ last.args.sender = "addrA" /\ last.args.voter = "addrB"
    /\ HederaGetVoters(voters, 1).ret = <<"addrB", "addrB", "addrB">>
    /\ proposals[1].yesVotes + proposals[1].noVotes = 3

\* The accepted votes on proposal i with the given support (log positions).
VotesCastWith(i, support) == {k \in VotesCastOn(i) : events[k].vote = support}

\* C18: calls of different callers interleave as whole transactions and no
\* update is lost: proposalCount is the number of accepted creations, each
\* proposal's yesVotes and noVotes are the numbers of accepted yes and no
\* votes on it, and its voter records are those votes' voters.
C18_NoLostUpdate ==
    /\ proposalCount = Len(CreatedLog)
    /\ \A i \in Ids :
         /\ proposals[i].yesVotes = Cardinality(VotesCastWith(i, TRUE))
         /\ proposals[i].noVotes = Cardinality(VotesCastWith(i, FALSE))
         /\ contract = "HederaVoting" => voters[i] = VotersAnnounced(i)
         /\ contract = "FlowVoting"
              => {a \in Addresses : hasVoted[i][a]} = Range(VotersAnnounced(i))

\* Creations and votes of two callers interleaved: create, vote by addrB,
\* create, vote by addrA, each proposal holding its one vote.
C18_Witness ==
    /\ Len(events) = 4
    /\ IsProposalCreated(events[1]) /\ IsVoteCast(events[2])
    /\ IsProposalCreated(events[3]) /\ IsVoteCast(events[4])
    /\ events[2].voter = "addrB" /\ events[4].voter = "addrA"
    /\ events[2].proposalId = 1 /\ events[4].proposalId = 2
    /\ proposals[1].noVotes = 1 /\ proposals[2].noVotes = 1

\* C19: an accepted createProposal appends exactly one ProposalCreated to the
\* log, carrying the assigned id and the stored parkName, message, parkSize,
\* chatTopicHistory, creator and deadline; an accepted vote appends exactly
\* one VoteCast with the proposal id, the voter identity and the support; a
\* rejected createProposal or vote leaves the log as it was.
C19_EventsMatchCalls ==
    [][/\ (CallStep("createProposal") /\ last'.status = SUCCESS)
            => LET p == proposals'[proposalCount']
               IN  /\ p.exists /\ p.proposalId = proposalCount'
                   /\ p.creator = last'.args.sender
                   /\ events' = Append(events,
                        [type |-> "ProposalCreated", proposalId |-> p.proposalId,
                         parkName |-> p.parkName, message |-> p.message,
                         parkSize |-> p.parkSize,
                         chatTopicHistory |-> p.chatTopicHistory,
                         creator |-> p.creator, deadline |-> p.deadline])
       /\ (CallStep("vote") /\ last'.status = SUCCESS)
            => events' = Append(events,
                 [type |-> "VoteCast", proposalId |-> last'.args.proposalId,
                  voter |-> last'.args.voter, vote |-> last'.args.support])
       /\ ((CallStep("createProposal") \/ CallStep("vote"))
             /\ last'.status # SUCCESS)
            => events' = events]_vars

\* An accepted creation, an accepted vote and then a rejected call, the log
\* holding one notification for each of the two accepted calls.
C19_Witness ==
    /\ Len(events) = 2
    /\ IsProposalCreated(events[1]) /\ events[1].creator = "addrA"
    /\ IsVoteCast(events[2]) /\ events[2].voter = "addrB"
    /\ last.fn = "vote" /\ last.status = DuplicateVote

\* The ids assigned so far, as announced in the log.
CreatedIds == {CreatedLog[k].proposalId : k \in 1 .. Len(CreatedLog)}

\* The deadline announced when id i was created.
AnnouncedDeadline(i) ==
    LET k == CHOOSE j \in 1 .. Len(CreatedLog) : CreatedLog[j].proposalId = i
    IN  CreatedLog[k].deadline

\* C20: getProposal(id) reverts with ProposalNotFound for every id that was
\* never created (0 and the ids above the number created included) and
\* returns for every created id at any time, before or after the deadline,
\* with active equal to (current time <= deadline) at the time of the read.
C20_GetProposalExistence ==
    \A i \in Ids :
      LET r == GetProposal(proposals, now, i)
      IN  IF i \in CreatedIds
          THEN /\ r.status = SUCCESS
               /\ r.ret.proposalId = i
               /\ r.ret.active = (now <= AnnouncedDeadline(i))
          ELSE r = ViewRevert(ProposalNotFound)

\* Two proposals read at one time, the first past its deadline (inactive),
\* the second still open (active); ids 0 and 3 are not found.
C20_Witness ==
    /\ proposalCount = 2
    /\ now > proposals[1].deadline /\ now <= proposals[2].deadline
    /\ GetProposal(proposals, now, 1).status = SUCCESS
    /\ ~GetProposal(proposals, now, 1).ret.active
    /\ GetProposal(proposals, now, 2).ret.active
    /\ GetProposal(proposals, now, 0).status = ProposalNotFound
    /\ GetProposal(proposals, now, 3).status = ProposalNotFound

\* C21: getVoters(id) never fails: it succeeds for every id, created or not,
\* in both variants, and returns the empty sequence when no vote was accepted
\* on id.  (Violated: FlowVoting has no getVoters, the call reverts.)
C21_GetVotersNeverFails ==
    \A i \in Ids :
      LET r == GetVoters(voters, i)
      IN  /\ r.status = SUCCESS
          /\ VotesCastOn(i) = {} => r.ret = <<>>

\* C24: in every reachable state of either contract a record exists for
\* exactly the ids 1 .. proposalCount, each record's proposalId field is the
\* id it is stored under, and getTotalProposals() is the number of accepted
\* createProposal calls so far, expired proposals included.
C24_RecordsAreOneToCount ==
    /\ \A i \in Ids :
         /\ proposals[i].exists <=> (1 <= i /\ i <= proposalCount)
         /\ proposals[i].exists => proposals[i].proposalId = i
    /\ GetTotalProposals(proposalCount) = ViewReturn(Len(CreatedLog))

\* Two proposals, the first expired and still counted, none under id 0 or 3.
C24_Witness ==
    /\ GetTotalProposals(proposalCount).ret = 2
    /\ proposals[1].exists /\ now > proposals[1].deadline
    /\ proposals[2].exists /\ proposals[2].proposalId = 2
    /\ ~proposals[0].exists /\ ~proposals[3].exists

(* ======================= server.js: the backend ======================== *)

(* ---- JavaScript values and strings ---- *)

\* The values a variable that is a number, null or a string can hold; a
\* string is the sequence of its characters.
JsNull == [js |-> "null"]
JsNumber(n) == [js |-> "number", value |-> n]
JsString(chars) == [js |-> "string", chars |-> chars]

\* !v of JavaScript.
Falsy(v) == v = JsNull \/ v = JsNumber(0) \/ v = JsString(<<>>)

\* String.prototype.indexOf / lastIndexOf / substring (0-based positions,
\* -1 when the pattern does not occur).
Occurrences(text, pat) ==
    {i \in 0 .. (Len(text) - Len(pat)) : SubSeq(text, i + 1, i + Len(pat)) = pat}

IndexOf(text, pat) ==
    IF Occurrences(text, pat) = {} THEN -1
    ELSE CHOOSE i \in Occurrences(text, pat) : \A j \in Occurrences(text, pat) : i <= j

LastIndexOf(text, pat) ==
    IF Occurrences(text, pat) = {} THEN -1
    ELSE CHOOSE i \in Occurrences(text, pat) : \A j \in Occurrences(text, pat) : i >= j

Substring(text, start, end) == SubSeq(text, start + 1, end)

Stars == <<"*", "*">>

extractTopicIdString(text) ==
    LET start == IndexOf(text, Stars) + 2
        end == LastIndexOf(text, Stars)
    IN  IF start > 1 /\ end > start
        THEN JsString(Substring(text, start, end))
        ELSE JsNull

(* ---- the Map chatTopics ---- *)
MapHas(map, key) == key \in DOMAIN map
MapGet(map, key) == map[key]
MapSet(map, key, value) ==
    [k \in (DOMAIN map) \cup {key} |-> IF k = key THEN value ELSE map[k]]

(* ---- inputs of POST /api/agent ---- *)
SessionIds == {"s1", "s2"}
ParkIds == {"park1"}
Metrics == {"SUM_TOTPOP"}

HederaIntents ==
    {"get_hedera_balance", "create_hedera_token", "hedera_transaction",
     "get_token_info"}
ReadIntents ==
    {"show_parks", "ask_area", "park_removal_impact", "park_ndvi_query",
     "park_stat_query"}
Intents == HederaIntents \cup ReadIntents \cup {"proposal", "greeting", "unknown"}

\* What the classification oracle answers (out.content), by what JSON.parse
\* makes of it: an intent record, the literal null, a number, or no JSON.
LLMContents ==
    {[json |-> "object", intent |-> i, metric |-> Null] : i \in Intents}
    \cup {[json |-> "object", intent |-> "park_stat_query", metric |-> m] : m \in Metrics}
    \cup {[json |-> "null", intent |-> Null, metric |-> Null],
          [json |-> "number", intent |-> Null, metric |-> Null],
          [json |-> "invalid", intent |-> Null, metric |-> Null]}

\* JSON.parse: throws on text that is no JSON, else the value.
JSONParse(content) ==
    IF content.json = "invalid" THEN [threw |-> TRUE, value |-> content]
    ELSE [threw |-> FALSE, value |-> content]

\* let parsed = { intent: "unknown", ... };
DefaultParsed == [json |-> "object", intent |-> "unknown", metric |-> Null]

\* The consensus service numbers the topics it creates; the agent's answer
\* names the new topic, set in ** ** or not.
DigitChars == <<"1", "2", "3", "4", "5", "6", "7", "8", "9">>
NewTopicId == <<"0", ".", DigitChars[Len(topics) + 1]>>
TopicOutputs(id) == {<<"T", " ">> \o Stars \o id \o Stars, <<"T", " ">> \o id}

\* The topic every proposal is announced on, and the script's.
ProposalsTopic == JsString(<<"0", ".", "0", ".", "6", "5", "9", "4", "1", "8", "0">>)
ScriptTopic == JsString(<<"0", ".", "0", ".", "6", "5", "9", "0", "6", "1", "2">>)

\* The account the backend and the script sign ledger transactions with.
Operator == "addrA"

\* const deadline = Math.floor(Date.now() / 1000) + 3600;
ProposalLifetime == 3600

FallbackReply ==
    "I can show parks by zipcode/city/state, or tell you the area of a clicked park."

(* ---- the services the handler awaits, by their outcome ---- *)

\* analyzeParkRemovalImpact: the parks_stats row, the /analyze answer and the
\* statistics row it combines.
AnalysisOutcomes ==
    {[db |-> "error", gee |-> "ok", stats |-> "row"],
     [db |-> "no row", gee |-> "ok", stats |-> "row"],
     [db |-> "row", gee |-> "rejects", stats |-> "row"],
     [db |-> "row", gee |-> "error result", stats |-> "row"],
     [db |-> "row", gee |-> "ok", stats |-> "error"],
     [db |-> "row", gee |-> "ok", stats |-> "no row"],
     [db |-> "row", gee |-> "ok", stats |-> "row"]}

Threw(cause) == [threw |-> TRUE, cause |-> cause, value |-> Null]
Returned(value) == [threw |-> FALSE, cause |-> "none", value |-> value]

analyzeParkRemovalImpact(o) ==
    IF o.db = "error" THEN Threw("geospatial database")
    ELSE IF o.db = "no row" THEN Returned(Null)
    ELSE IF o.gee = "rejects" THEN Threw("analysis service")
    ELSE IF o.stats = "error" THEN Threw("geospatial database")
    ELSE IF o.gee = "error result" THEN Threw("analysis service")
    ELSE IF o.stats = "no row" THEN Threw("no row")
    ELSE Returned("impact")

NdviOutcomes ==
    {[db |-> "error", ndvi |-> "ok"], [db |-> "no row", ndvi |-> "ok"],
     [db |-> "row", ndvi |-> "rejects"], [db |-> "row", ndvi |-> "error result"],
     [db |-> "row", ndvi |-> "ok"]}

\* An answer of /ndvi without an ndvi field makes result.ndvi undefined.
getParkNDVI(o) ==
    IF o.db = "error" THEN Threw("geospatial database")
    ELSE IF o.db = "no row" THEN Threw("no row")
    ELSE IF o.ndvi = "rejects" THEN Threw("analysis service")
    ELSE IF o.ndvi = "error result" THEN Returned(Null)
    ELSE Returned("ndvi")

RowOutcomes == {"error", "no row", "row"}

queryParkStatById(o) ==
    IF o = "error" THEN Threw("geospatial database")
    ELSE IF o = "no row" THEN Returned(Null)
    ELSE Returned("stat")

queryParkAreaById(o) ==
    IF o = "error" THEN Threw("geospatial database")
    ELSE IF o = "no row" THEN Returned(Null)
    ELSE Returned("info")

(* ---- POST /api/agent: one action per stretch of the handler between ---- *)
(* ---- two awaits                                                     ---- *)

Done == [pc |-> "done"]
NoReply == [action |-> Null, reply |-> Null]

\* The locals of a request that has just arrived.
NewAgentRequest(finalSessionId, selectedParkId) ==
    [pc |-> "start", sessionId |-> finalSessionId,
     selectedParkId |-> selectedParkId, topicId |-> JsNumber(0),
     intent |-> Null, metric |-> Null, oracle |-> "pending",
     failure |-> "none", pending |-> NoReply, parkName |-> Null, parkSize |-> 0,
     proposalId |-> 0, ledgerId |-> 0]

\* What a response is about: the request's session and intent, how the
\* classification went and which awaited service or evaluation failed, if
\* any (not part of the JSON sent).
About(req) ==
    [sessionId |-> req.sessionId, intent |-> req.intent, oracle |-> req.oracle,
     failure |-> req.failure]

\* The request once a service has failed it, or an evaluation has thrown.
Failed(req, what) == [req EXCEPT !.failure = what]

\* return res.json({ topicId, sessionId: finalSessionId, action, reply, ... })
Json(req, action, reply) ==
    [status |-> 200, action |-> action, reply |-> reply, topicId |-> req.topicId,
     sessionId |-> req.sessionId, about |-> About(req)]

\* res.status(500).json({ action: "error", reply: "Server error." })
ServerError(req) ==
    [status |-> 500, action |-> "error", reply |-> "Server error.",
     topicId |-> JsNull, sessionId |-> Null, about |-> About(req)]

\* Mutation: the handler answers and then answers again.
RespondTwice(r, resp) ==
    /\ responses' = [responses EXCEPT ![r] = Append(Append(@, resp), resp)]
    /\ requests' = [requests EXCEPT ![r] = Done]

\* The response is sent and the handler returns.
Respond(r, resp) ==
    /\ responses' = [responses EXCEPT ![r] = Append(@, resp)]
    /\ requests' = [requests EXCEPT ![r] = Done]

\* An exception anywhere in the try block: } catch (e) { ... }
Catch(r, req) == Respond(r, ServerError(req))

Goto(r, req, pc) ==
    /\ requests' = [requests EXCEPT ![r] = [req EXCEPT !.pc = pc]]
    /\ UNCHANGED responses

\* The reply is pushed to the session's topic before it is sent.
PushThenSend(r, req, action, reply) ==
    Goto(r, [req EXCEPT !.pending = [action |-> action, reply |-> reply]], "pushReply")

AgentFrame == UNCHANGED <<contract, now, last, ledgerVars, peer, script>>

AgentReceive(r, sessionId, random, selectedParkId) ==
    LET finalSessionId == IF sessionId # Null THEN sessionId ELSE random
        req == NewAgentRequest(finalSessionId, selectedParkId)
    IN  /\ requests[r] = Idle
        /\ IF ~MapHas(chatTopics, finalSessionId)
           THEN Goto(r, req, "createTopic")
           ELSE Goto(r, [req EXCEPT !.topicId = MapGet(chatTopics, finalSessionId)],
                     "logMessage")
        /\ UNCHANGED <<chatTopics, topics, topicMessages>>
        /\ AgentFrame

AgentCreateTopic(r) ==
    LET req == requests[r]
    IN  /\ req.pc = "createTopic"
        /\ \/ /\ Catch(r, Failed(req, "topic service"))
              /\ UNCHANGED <<chatTopics, topics>>
           \/ \E output \in TopicOutputs(NewTopicId) :
                LET topicId == extractTopicIdString(output)
                IN  /\ topics' = Append(topics, req.sessionId)
                    /\ chatTopics' = MapSet(chatTopics, req.sessionId, topicId)
                    /\ Goto(r, [req EXCEPT !.topicId = topicId], "logMessage")
        /\ UNCHANGED topicMessages
        /\ AgentFrame

AgentLogMessage(r) ==
    LET req == requests[r]
    IN  /\ req.pc = "logMessage"
        /\ \/ Catch(r, Failed(req, "topic service"))
           \/ Goto(r, req, "classify")
        /\ UNCHANGED <<chatTopics, topics, topicMessages>>
        /\ AgentFrame

\* parsed.intent of a value that is not an object is undefined.
IntentOf(parsed) == IF parsed.json = "object" THEN parsed.intent ELSE Null
MetricOf(parsed) == IF parsed.json = "object" THEN parsed.metric ELSE Null

NeedsSelection(req) == req.selectedParkId = Null

\* The chain of if (parsed.intent === ...) up to the branch's first await.
Dispatch(r, req) ==
    IF req.intent \in HederaIntents THEN Goto(r, req, "hederaInvoke")
    ELSE IF req.intent = "show_parks" THEN Goto(r, req, "queryParks")
    ELSE IF req.intent = "ask_area" THEN
        IF NeedsSelection(req)
        THEN Respond(r, Json(req, "need_selection", "Please click a park first."))
        ELSE Goto(r, req, "queryArea")
    ELSE IF req.intent = "park_removal_impact" THEN
        IF NeedsSelection(req)
        THEN Respond(r, Json(req, "need_selection",
                             "Please select a park to analyze its removal impact."))
        ELSE Goto(r, req, "analyze")
    ELSE IF req.intent = "park_ndvi_query" THEN
        IF NeedsSelection(req)
        THEN Respond(r, Json(req, "need_selection", "Please select a park."))
        ELSE Goto(r, req, "ndvi")
    ELSE IF req.intent = "park_stat_query" THEN
        IF NeedsSelection(req)
        THEN Respond(r, Json(req, "need_selection", "Please select a park."))
        ELSE IF req.metric = Null
        THEN Respond(r, Json(req, "error", "Metric not specified."))
        ELSE Goto(r, req, "stat")
    ELSE IF req.intent = "proposal" THEN
        IF NeedsSelection(req)
        THEN Respond(r, Json(req, "need_selection",
                             "Please select a park to propose a change for."))
        ELSE Goto(r, req, "proposalArea")
    ELSE IF req.intent = "greeting" THEN PushThenSend(r, req, "answer", "Hello!")
    ELSE PushThenSend(r, req, "answer", FallbackReply)

AgentClassify(r) ==
    LET req == requests[r]
    IN  /\ req.pc = "classify"
        /\ \/ Catch(r, Failed([req EXCEPT !.oracle = "threw"], "classification oracle"))
           \/ \E content \in LLMContents :
                LET p == JSONParse(content)
                    parsed == IF p.threw THEN DefaultParsed ELSE p.value
                    classified == [req EXCEPT !.oracle = content.json,
                                              !.intent = IntentOf(parsed),
                                              !.metric = MetricOf(parsed)]
                IN  IF parsed.json = "null"
                    THEN Catch(r, Failed(classified, "TypeError"))
                    ELSE Dispatch(r, classified)
        /\ UNCHANGED <<chatTopics, topics, topicMessages>>
        /\ AgentFrame

\* The executor answers or fails; the assignment to the undeclared
\* responsePayload that follows its answer throws in module code.
AgentHederaInvoke(r) ==
    LET req == requests[r]
    IN  /\ req.pc = "hederaInvoke"
        /\ \/ Catch(r, Failed(req, "hedera agent"))
           \/ Catch(r, Failed(req, "ReferenceError"))
        /\ UNCHANGED <<chatTopics, topics, topicMessages>>
        /\ AgentFrame

AgentQueryParks(r) ==
    LET req == requests[r]
    IN  /\ req.pc = "queryParks"
        /\ \/ Catch(r, Failed(req, "geospatial database"))
           \/ PushThenSend(r, req, "render_parks", "Loaded park(s)")
        /\ UNCHANGED <<chatTopics, topics, topicMessages>>
        /\ AgentFrame

AgentQueryArea(r) ==
    LET req == requests[r]
    IN  /\ req.pc = "queryArea"
        /\ \E o \in RowOutcomes :
             LET info == queryParkAreaById(o)
             IN  IF info.threw THEN Catch(r, Failed(req, info.cause))
                 ELSE IF info.value = Null
                 THEN Respond(r, Json(Failed(req, "no row"), "error",
                                      "Could not find that park."))
                 ELSE PushThenSend(r, req, "answer", "Area of park")
        /\ UNCHANGED <<chatTopics, topics, topicMessages>>
        /\ AgentFrame

\* Mutation: a park without a row is answered as if the analysis had run.
ImpactMessageUnchecked(r, req, impact) ==
    PushThenSend(r, req, "removal_impact", "impact message")

\* msgProp = impact.message; ... : impact is null when the park has no row.
ImpactMessage(r, req, impact) ==
    IF impact.value = Null THEN Catch(r, req)
    ELSE PushThenSend(r, req, "removal_impact", "impact message")

AgentAnalyze(r) ==
    LET req == requests[r]
    IN  /\ req.pc = "analyze"
        /\ \E o \in AnalysisOutcomes :
             LET impact == analyzeParkRemovalImpact(o)
             IN  IF impact.threw THEN Catch(r, Failed(req, impact.cause))
                 ELSE IF impact.value = Null
                 THEN ImpactMessage(r, Failed(req, "no row"), impact)
                 ELSE ImpactMessage(r, req, impact)
        /\ UNCHANGED <<chatTopics, topics, topicMessages>>
        /\ AgentFrame

AgentNdvi(r) ==
    LET req == requests[r]
    IN  /\ req.pc = "ndvi"
        /\ \E o \in NdviOutcomes :
             LET ndvi == getParkNDVI(o)
             IN  IF ndvi.threw THEN Catch(r, Failed(req, ndvi.cause))
                 ELSE IF ndvi.value = Null THEN Catch(r, Failed(req, "error result"))
                 ELSE PushThenSend(r, req, "answer", "The NDVI of this park")
        /\ UNCHANGED <<chatTopics, topics, topicMessages>>
        /\ AgentFrame

AgentStat(r) ==
    LET req == requests[r]
    IN  /\ req.pc = "stat"
        /\ \E o \in RowOutcomes :
             LET stat == queryParkStatById(o)
             IN  IF stat.threw THEN Catch(r, Failed(req, stat.cause))
                 ELSE IF stat.value = Null THEN Catch(r, Failed(req, "no row"))
                 ELSE PushThenSend(r, req, "answer", "The value for metric")
        /\ UNCHANGED <<chatTopics, topics, topicMessages>>
        /\ AgentFrame

\* const parkName = info?.name || "Unnamed Park"; parkSize = Math.round(info?.acres || 0)
AgentProposalArea(r) ==
    LET req == requests[r]
    IN  /\ req.pc = "proposalArea"
        /\ \E o \in RowOutcomes, n \in ParkNames, z \in ParkSizes :
             LET info == queryParkAreaById(o)
             IN  IF info.threw THEN Catch(r, Failed(req, info.cause))
                 ELSE IF info.value = Null
                 THEN Goto(r, [req EXCEPT !.parkName = "Unnamed Park", !.parkSize = 0],
                           "proposalImpact")
                 ELSE Goto(r, [req EXCEPT !.parkName = n, !.parkSize = z],
                           "proposalImpact")
        /\ UNCHANGED <<chatTopics, topics, topicMessages>>
        /\ AgentFrame

AgentProposalImpact(r) ==
    LET req == requests[r]
    IN  /\ req.pc = "proposalImpact"
        /\ \E o \in AnalysisOutcomes :
             LET impactt == analyzeParkRemovalImpact(o)
             IN  IF impactt.threw THEN Catch(r, Failed(req, impactt.cause))
                 ELSE IF impactt.value = Null THEN Catch(r, Failed(req, "no row"))
                 ELSE Goto(r, req, "proposalQuery")
        /\ UNCHANGED <<chatTopics, topics, topicMessages>>
        /\ AgentFrame

\* const proposalId = queryResult.getUint256(0).toNumber(), of the
\* proposalCount query sent before the transaction.
AnnouncedId(count) == count

AgentProposalQuery(r) ==
    LET req == requests[r]
    IN  /\ req.pc = "proposalQuery"
        /\ \/ Catch(r, Failed(req, "ledger"))
           \/ Goto(r, [req EXCEPT !.proposalId = AnnouncedId(proposalCount)],
                   "proposalExecute")
        /\ UNCHANGED <<chatTopics, topics, topicMessages>>
        /\ AgentFrame

\* txContractExecute.execute and getReceipt: the transaction runs on the
\* ledger, or never reaches it; a reverted one makes getReceipt throw.
AgentProposalExecute(r) ==
    LET req == requests[r]
    IN  /\ req.pc = "proposalExecute"
        /\ \/ /\ Catch(r, Failed(req, "ledger"))
              /\ UNCHANGED <<contract, now, last, ledgerVars>>
           \/ /\ \E m \in Messages :
                   HederaCreateProposal(Operator, req.parkName, m, req.parkSize,
                                        req.topicId, now + ProposalLifetime)
              /\ IF last'.status = SUCCESS
                 THEN Goto(r, [req EXCEPT !.ledgerId = proposalCount'],
                           "proposalAnnounce")
                 ELSE Catch(r, Failed(req, "ledger"))
        /\ UNCHANGED <<chatTopics, topics, topicMessages, peer, script>>

\* A proposal announcement on a topic; ledgerId is the id the ledger gave
\* the proposal the announcement is about (not part of the message).
Announcement(topic, proposalId, ledgerId) ==
    [topic |-> topic, proposalId |-> proposalId, ledgerId |-> ledgerId]

\* pushToHederaTopic(topicId, proposalMessage): nothing is sent to a topic
\* id that is null.
AgentProposalAnnounce(r) ==
    LET req == requests[r]
    IN  /\ req.pc = "proposalAnnounce"
        /\ IF Falsy(req.topicId)
           THEN Goto(r, req, "proposalNotify") /\ UNCHANGED topicMessages
           ELSE \/ Catch(r, Failed(req, "topic service")) /\ UNCHANGED topicMessages
                \/ /\ topicMessages' = topicMessages \cup
                        {Announcement(req.topicId, req.proposalId, req.ledgerId)}
                   /\ Goto(r, req, "proposalNotify")
        /\ UNCHANGED <<chatTopics, topics>>
        /\ AgentFrame

AgentProposalNotify(r) ==
    LET req == requests[r]
    IN  /\ req.pc = "proposalNotify"
        /\ \/ Catch(r, Failed(req, "topic service")) /\ UNCHANGED topicMessages
           \/ /\ topicMessages' = topicMessages \cup
                   {Announcement(ProposalsTopic, req.proposalId, req.ledgerId)}
              /\ Respond(r, Json(req, "proposal_created", "Proposal submitted"))
        /\ UNCHANGED <<chatTopics, topics>>
        /\ AgentFrame

\* await pushToHederaTopic(topicId, reply); return res.json(...)
AgentPushReply(r) ==
    LET req == requests[r]
    IN  /\ req.pc = "pushReply"
        /\ IF Falsy(req.topicId)
           THEN Respond(r, Json(req, req.pending.action, req.pending.reply))
           ELSE \/ Catch(r, Failed(req, "topic service"))
                \/ Respond(r, Json(req, req.pending.action, req.pending.reply))
        /\ UNCHANGED <<chatTopics, topics, topicMessages>>
        /\ AgentFrame

(* ---- the backend serving /api/agent ---- *)

\* The backend started against a freshly deployed HederaVoting.
BackendInit ==
    /\ peer = NoPeer
    /\ ServerInit
    /\ contract = "HederaVoting"
    /\ now = 1
    /\ proposals = [i \in Ids |-> EmptyProposal]
    /\ hasVoted = [i \in Ids |-> [a \in Addresses |-> FALSE]]
    /\ voters = [i \in Ids |-> <<>>]
    /\ proposalCount = 0
    /\ events = <<>>
    /\ last = [fn |-> "constructor", status |-> SUCCESS, args |-> NoArgs, ret |-> NoReturn]

AgentNext ==
    \/ \E r \in Requests, s \in SessionIds \cup {Null}, g \in SessionIds,
          p \in ParkIds \cup {Null} : AgentReceive(r, s, g, p)
    \/ \E r \in Requests : AgentCreateTopic(r)
    \/ \E r \in Requests : AgentLogMessage(r)
    \/ \E r \in Requests : AgentClassify(r)
    \/ \E r \in Requests : AgentHederaInvoke(r)
    \/ \E r \in Requests : AgentQueryParks(r)
    \/ \E r \in Requests : AgentQueryArea(r)
    \/ \E r \in Requests : AgentAnalyze(r)
    \/ \E r \in Requests : AgentNdvi(r)
    \/ \E r \in Requests : AgentStat(r)
    \/ \E r \in Requests : AgentProposalArea(r)
    \/ \E r \in Requests : AgentProposalImpact(r)
    \/ \E r \in Requests : AgentProposalQuery(r)
    \/ \E r \in Requests : AgentProposalExecute(r)
    \/ \E r \in Requests : AgentProposalAnnounce(r)
    \/ \E r \in Requests : AgentProposalNotify(r)
    \/ \E r \in Requests : AgentPushReply(r)

AgentSpec == BackendInit /\ [][AgentNext]_vars

(* ===================== properties of POST /api/agent =================== *)

\* Every response sent so far, with the request it answers.
Sent == {<<r, k>> \in Requests \X (1 .. 2) : k <= Len(responses[r])}
Response(rk) == responses[rk[1]][rk[2]]

\* C22: when the classification oracle fails or answers with something that
\* is not a structured intent record, the request is answered with the
\* generic help reply (200, action "answer"), not with an error, unless the
\* topic service fails it.  (Violated: a rejected LLM.invoke and the answer
\* null end in the handler's catch.)
C22_OracleFailureFallsBack ==
    \A rk \in Sent :
      LET a == Response(rk)
      IN  (a.about.oracle \in {"threw", "invalid", "null", "number"}
             /\ a.about.failure # "topic service")
            => (a.status = 200 /\ a.action = "answer" /\ a.reply = FallbackReply)

\* What goes wrong with the geospatial database or the analysis service.
ReadFailures == {"geospatial database", "analysis service", "no row", "error result"}

\* The positions at which a read intent awaits its database or analysis call.
ReadPositions == {"queryParks", "queryArea", "analyze", "ndvi", "stat"}

\* C23: for the read intents, a database or analysis failure (a thrown
\* error, an error result, no row for the selected park) is answered with
\* action "error"; the step in which the call ends either goes on to push
\* the reply or sends exactly one response, so the request is not left
\* unanswered and nothing escapes the handler.
C23_ReadFailureIsErrorResponse ==
    /\ [](\A rk \in Sent :
            LET a == Response(rk)
            IN  (a.about.intent \in ReadIntents /\ a.about.failure \in ReadFailures)
                  => a.action = "error")
    /\ [][\A r \in Requests :
            (requests[r].pc \in ReadPositions /\ requests'[r] # requests[r])
              => \/ /\ requests'[r].pc = "pushReply"
                    /\ requests'[r].failure = "none"
                    /\ responses'[r] = responses[r]
                 \/ /\ requests'[r] = Done
                    /\ Len(responses'[r]) = 1
                    /\ responses'[r][1].action = "error"
                    /\ responses'[r][1].about.failure \in ReadFailures]_vars

\* One request answered 500 after the analysis service returned an error
\* result, another answered 200 / "error" for a park without a row.
C23_Witness ==
    /\ Len(responses["r1"]) = 1 /\ Len(responses["r2"]) = 1
    /\ responses["r1"][1].about.intent = "park_removal_impact"
    /\ responses["r1"][1].about.failure = "analysis service"
    /\ responses["r1"][1].status = 500
    /\ responses["r2"][1].about.intent = "ask_area"
    /\ responses["r2"][1].about.failure = "no row"
    /\ responses["r2"][1].status = 200

\* C25: every proposal announcement (the "Proposal (ID - n)" message of the
\* proposal intent, the proposalId of the script's notification) names the
\* id the ledger assigned to the proposal that the same request created.
\* (Violated: the id announced is proposalCount as read before the creation.)
C25_AnnouncedIdIsLedgerId ==
    \A m \in topicMessages : m.proposalId = m.ledgerId

\* The topics created for session s (positions in the list of topics).
TopicsOf(s) == {k \in 1 .. Len(topics) : topics[k] = s}

\* C27: at most one discussion topic is created for each session id, and
\* all requests of a session return the same topicId, also when two requests
\* with the same new sessionId are handled concurrently.  (Violated: both
\* requests pass the chatTopics.has check before either reaches
\* chatTopics.set.)
C27_OneTopicPerSession ==
    /\ \A s \in SessionIds : Cardinality(TopicsOf(s)) <= 1
    /\ \A x \in Sent, y \in Sent :
         (Response(x).status = 200 /\ Response(y).status = 200
            /\ Response(x).sessionId = Response(y).sessionId)
           => Response(x).topicId = Response(y).topicId

(* ---- scripts/callContractFunctions.js: main ---- *)

ScriptFrame == UNCHANGED <<peer, chatTopics, topics, requests, responses>>

\* The script is run (again); its proposalCount query answers, or fails and
\* the script ends in its catch.
ScriptQuery ==
    /\ script.pc \in {"idle", "done"}
    /\ \/ script' = Done
       \/ script' = [pc |-> "execute", proposalId |-> AnnouncedId(proposalCount),
                     ledgerId |-> 0]
    /\ UNCHANGED <<contract, now, last, ledgerVars, topicMessages>>
    /\ ScriptFrame

ScriptExecute ==
    /\ script.pc = "execute"
    /\ \/ /\ script' = Done
          /\ UNCHANGED <<contract, now, last, ledgerVars>>
       \/ /\ HederaCreateProposal(Operator, "Aoma Park", "Add no trees", 120,
                                  "Initial proposal created", now + ProposalLifetime)
          /\ script' = IF last'.status = SUCCESS
                       THEN [script EXCEPT !.pc = "notify", !.ledgerId = proposalCount']
                       ELSE Done
    /\ UNCHANGED topicMessages
    /\ ScriptFrame

\* The TopicMessageSubmitTransaction with the proposalId read by the query.
ScriptNotify ==
    /\ script.pc = "notify"
    /\ \/ UNCHANGED topicMessages
       \/ topicMessages' = topicMessages \cup
            {Announcement(ScriptTopic, script.proposalId, script.ledgerId)}
    /\ script' = Done
    /\ UNCHANGED <<contract, now, last, ledgerVars>>
    /\ ScriptFrame

(* ---- POST /api/vote ---- *)

JsBoolean(b) == [js |-> "boolean", value |-> b]

\* typeof v
TypeOf(v) == IF v.js = "null" THEN "object" ELSE v.js

\* The Hedera accounts of the voters and their Solidity addresses.
AccountIds == {"0.0.1001", "0.0.1002"}
toSolidityAddress == ("0.0.1001" :> "addrA") @@ ("0.0.1002" :> "addrB")

\* AccountId.fromString(s).toSolidityAddress(): throws on a string that is
\* no account id.
SolidityAddressOf(s) ==
    IF s \in AccountIds THEN Returned(toSolidityAddress[s]) ELSE Threw("account id")

\* req.body: proposalId, vote and voterAddress as the client sent them.
VoteBodies ==
    [proposalId : {JsNumber(i) : i \in 0 .. 2} \cup {JsString(<<"1">>)},
     vote : {JsBoolean(TRUE), JsBoolean(FALSE), JsString(<<"y", "e", "s">>)},
     voterAddress : AccountIds \cup {"abc", Null}]

InvalidParameters(body) ==
    \/ TypeOf(body.vote) # "boolean"
    \/ body.voterAddress = Null
    \/ TypeOf(body.proposalId) # "number"

\* What a response of /api/vote is about: whether the handler called the
\* ledger, whether the vote was recorded there, whether the token transfer
\* was confirmed (not part of the JSON sent).
VoteResponse(status, success, text, req) ==
    [status |-> status, success |-> success, text |-> text,
     about |-> [called |-> req.called, recorded |-> req.recorded,
                transferred |-> req.transferred]]

InvalidResponse(req) == VoteResponse(400, FALSE, "Invalid parameters", req)
FailedResponse(req) == VoteResponse(500, FALSE, "Failed to vote", req)
SubmittedResponse(req) == VoteResponse(200, TRUE, "Vote submitted", req)

NewVoteRequest(body) ==
    [pc |-> "start", proposalId |-> body.proposalId, vote |-> body.vote,
     voter |-> Null, called |-> FALSE, recorded |-> FALSE, transferred |-> FALSE]

VoteFrame == UNCHANGED <<peer, chatTopics, topics, topicMessages, script>>

\* From the arrival of the request to await tx.execute(client).
VoteReceive(r, body) ==
    LET req == NewVoteRequest(body)
        address == SolidityAddressOf(body.voterAddress)
    IN  /\ requests[r] = Idle
        /\ IF InvalidParameters(body) THEN Respond(r, InvalidResponse(req))
           ELSE IF address.threw THEN Respond(r, FailedResponse(req))
           ELSE Goto(r, [req EXCEPT !.voter = address.value], "execute")
        /\ UNCHANGED <<contract, now, last, ledgerVars>>
        /\ VoteFrame

\* tx.execute: the transaction does not reach the ledger, or runs there.
VoteExecute(r) ==
    LET req == requests[r]
    IN  /\ req.pc = "execute"
        /\ \/ /\ Respond(r, FailedResponse(req))
              /\ UNCHANGED <<contract, now, last, ledgerVars>>
           \/ /\ HederaVote(Operator, req.proposalId.value, req.vote.value, req.voter)
              /\ Goto(r, [req EXCEPT !.called = TRUE,
                                     !.recorded = (last'.status = SUCCESS)],
                      "receipt")
        /\ VoteFrame

\* response.getReceipt: throws when the receipt cannot be fetched or the
\* transaction reverted.
VoteReceipt(r) ==
    LET req == requests[r]
    IN  /\ req.pc = "receipt"
        /\ IF ~req.recorded THEN Respond(r, FailedResponse(req))
           ELSE \/ Respond(r, FailedResponse(req))
                \/ Goto(r, req, "transfer")
        /\ UNCHANGED <<contract, now, last, ledgerVars>>
        /\ VoteFrame

\* The token transfer to the voter's reward account (freeze, sign, execute,
\* receipt): confirmed, or any of its steps throws.
VoteTransfer(r) ==
    LET req == requests[r]
    IN  /\ req.pc = "transfer"
        /\ \/ Respond(r, FailedResponse(req))
           \/ Respond(r, SubmittedResponse([req EXCEPT !.transferred = TRUE]))
        /\ UNCHANGED <<contract, now, last, ledgerVars>>
        /\ VoteFrame

(* ---- the backend serving /api/vote; proposals come from the script ---- *)

VoteNext ==
    \/ ScriptQuery
    \/ ScriptExecute
    \/ ScriptNotify
    \/ \E r \in Requests, body \in VoteBodies : VoteReceive(r, body)
    \/ \E r \in Requests : VoteExecute(r)
    \/ \E r \in Requests : VoteReceipt(r)
    \/ \E r \in Requests : VoteTransfer(r)

VoteSpec == BackendInit /\ [][VoteNext]_vars

(* ======================== properties of /api/vote ====================== *)

\* C26: a request answered with a failure (400 or 500) recorded no vote on
\* the ledger; a 400 is sent before any ledger call; success is answered
\* only when the vote and the token transfer were both confirmed.
\* (Violated: a vote is recorded and the transfer after it fails.)
C26_FailureMeansNoVote ==
    \A rk \in Sent :
      LET a == Response(rk)
      IN  /\ ~a.success => ~a.about.recorded
          /\ a.status = 400 => ~a.about.called
          /\ a.success => (a.about.recorded /\ a.about.transferred)

\* The steps a request that has arrived can take.
AgentStep(r) ==
    \/ AgentCreateTopic(r) \/ AgentLogMessage(r) \/ AgentClassify(r)
    \/ AgentHederaInvoke(r) \/ AgentQueryParks(r) \/ AgentQueryArea(r)
    \/ AgentAnalyze(r) \/ AgentNdvi(r) \/ AgentStat(r)
    \/ AgentProposalArea(r) \/ AgentProposalImpact(r) \/ AgentProposalQuery(r)
    \/ AgentProposalExecute(r) \/ AgentProposalAnnounce(r)
    \/ AgentProposalNotify(r) \/ AgentPushReply(r)

AgentActions ==
    {"answer", "error", "need_selection", "proposal_created", "removal_impact",
     "render_parks"}

\* C30: every POST /api/agent request is answered exactly once: no request
\* has more than one response, a request has its response exactly when its
\* handler has returned, a handler that has not returned can always take a
\* step, a 500 response is {action: "error", reply: "Server error."} and
\* follows a failure, and every other response is the JSON of a branch.
C30_AnsweredExactlyOnce ==
    \A r \in Requests :
       /\ Len(responses[r]) <= 1
       /\ (requests[r] = Done) <=> (Len(responses[r]) = 1)
       /\ requests[r] \notin {Idle, Done} => ENABLED AgentStep(r)
       /\ \A k \in 1 .. Len(responses[r]) :
             LET a == responses[r][k]
             IN  IF a.status = 500
                 THEN a.action = "error" /\ a.reply = "Server error."
                      /\ a.about.failure # "none"
                 ELSE a.status = 200 /\ a.action \in AgentActions

\* One request with a Hedera intent was answered 500 after the ReferenceError,
\* the other was answered with need_selection, and a third kind of exit, the
\* fallback, is witnessed by C22.
C30_Witness ==
    /\ Len(responses["r1"]) = 1 /\ Len(responses["r2"]) = 1
    /\ responses["r1"][1].status = 500
    /\ responses["r1"][1].about.intent \in HederaIntents
    /\ responses["r1"][1].about.failure = "ReferenceError"
    /\ responses["r2"][1].action = "need_selection"

(* ============ FlowVoting and HederaVoting fed the same calls =========== *)

\* A freshly deployed HederaVoting, as the second contract.
PeerInit ==
    [contract |-> "HederaVoting",
     proposals |-> [i \in Ids |-> EmptyProposal],
     voters |-> [i \in Ids |-> <<>>],
     proposalCount |-> 0,
     events |-> <<>>,
     last |-> [fn |-> "constructor", status |-> SUCCESS, args |-> NoArgs,
               ret |-> NoReturn]]

PeerRevert(st, fn, args, reason) ==
    [st EXCEPT !.last = [fn |-> fn, status |-> reason, args |-> args, ret |-> NoReturn]]

\* HederaVoting.createProposal run on the second contract's storage st.
PeerCreateProposal(st, timestamp, sender, _parkName, _message, _parkSize, _chatTopicHistory, _deadline) ==
    LET args == CreateArgs(sender, _parkName, _message, _parkSize, _chatTopicHistory, _deadline)
        newProposalId == HederaNewProposalId(st.proposalCount)
    IN  IF ~HederaDeadlineInFuture(_deadline, timestamp)
        THEN PeerRevert(st, "createProposal", args, InvalidDeadline)
        ELSE [st EXCEPT
                !.proposalCount = newProposalId,
                !.proposals[newProposalId] =
                    HederaNewProposal(newProposalId, _parkName, _message, _parkSize,
                                      _chatTopicHistory, sender, _deadline),
                !.events = Append(@,
                    ProposalCreated(newProposalId, _parkName, _message, _parkSize,
                                    _chatTopicHistory, sender, _deadline)),
                !.last = [fn |-> "createProposal", status |-> SUCCESS, args |-> args,
                          ret |-> NoReturn]]

\* HederaVoting.vote run on the second contract's storage st.
PeerVote(st, timestamp, sender, _proposalId, _support, _voter) ==
    LET args == VoteArgs(sender, _proposalId, _support, _voter)
        p == st.proposals[_proposalId]
    IN  IF ~HederaProposalExists(p)
        THEN PeerRevert(st, "vote", args, ProposalNotFound)
        ELSE IF ~HederaVotingOpen(timestamp, p.deadline)
        THEN PeerRevert(st, "vote", args, VotingClosed)
        ELSE [st EXCEPT
                !.proposals[_proposalId] = HederaCount(p, _support),
                !.voters = HederaPushVoter(@, _proposalId, _voter),
                !.events = Append(@, VoteCast(_proposalId, _voter, _support)),
                !.last = [fn |-> "vote", status |-> SUCCESS, args |-> args,
                          ret |-> NoReturn]]

\* The callers' discipline: a voter votes as themselves, and not again on a
\* proposal on which a vote of theirs was accepted (by either contract).
HasVoteAccepted(log, i, a) ==
    \E k \in 1 .. Len(log) :
       IsVoteCast(log[k]) /\ log[k].proposalId = i /\ log[k].voter = a

Disciplined(s, i) ==
    ~HasVoteAccepted(events, i, s) /\ ~HasVoteAccepted(peer.events, i, s)

EquivCreateProposal(s, n, m, z, h, d) ==
    /\ FlowCreateProposal(s, n, m, z, h, d)
    /\ peer' = PeerCreateProposal(peer, now, s, n, m, z, h, d)
    /\ UNCHANGED serverVars

EquivVote(s, i, b) ==
    /\ Disciplined(s, i)
    /\ FlowVote(s, i, b)
    /\ peer' = PeerVote(peer, now, s, i, b, s)
    /\ UNCHANGED serverVars

EquivAdvanceTime ==
    /\ AdvanceTime
    /\ UNCHANGED <<peer, serverVars>>

EquivInit ==
    /\ peer = PeerInit
    /\ ServerInit
    /\ contract = "FlowVoting"
    /\ now = 1
    /\ proposals = [i \in Ids |-> EmptyProposal]
    /\ hasVoted = [i \in Ids |-> [a \in Addresses |-> FALSE]]
    /\ voters = [i \in Ids |-> <<>>]
    /\ proposalCount = 0
    /\ events = <<>>
    /\ last = [fn |-> "constructor", status |-> SUCCESS, args |-> NoArgs, ret |-> NoReturn]

EquivNext ==
    \/ \E s \in Creators, n \in ParkNames, m \in Messages, z \in ParkSizes,
          h \in ChatTopicHistories, d \in Deadlines :
          EquivCreateProposal(s, n, m, z, h, d)
    \/ \E s \in Addresses, i \in CallIds, b \in BOOLEAN : EquivVote(s, i, b)
    \/ EquivAdvanceTime

EquivSpec == EquivInit /\ [][EquivNext]_vars

\* C28: when every voter votes as themselves and at most once per proposal,
\* the two variants fed the same calls at the same times accept and reject
\* the same calls (with the same reason), getProposal, getActiveProposals
\* and getTotalProposals return the same values, and HederaVoting's voter
\* list of a proposal holds exactly the identities with hasUserVoted true.
C28_VariantsAgree ==
    /\ last.fn = peer.last.fn /\ last.status = peer.last.status
    /\ events = peer.events
    /\ \A i \in Ids :
         /\ FlowGetProposal(proposals, now, i) = HederaGetProposal(peer.proposals, now, i)
         /\ Range(HederaGetVoters(peer.voters, i).ret)
              = {a \in Addresses : FlowHasUserVoted(hasVoted, i, a).ret}
    /\ FlowGetActiveProposals(proposals, proposalCount, now)
         = HederaGetActiveProposals(peer.proposals, peer.proposalCount, now)
    /\ FlowGetTotalProposals(proposalCount) = HederaGetTotalProposals(peer.proposalCount)

\* Both contracts accepted a yes vote of addrA on proposal 1 and, the
\* deadline having passed, have just rejected the vote of addrB.
C28_Witness ==
    /\ last.fn = "vote" /\ last.status = VotingClosed
    /\ peer.last.fn = "vote" /\ peer.last.status = VotingClosed
    /\ proposals[1].yesVotes = 1 /\ peer.proposals[1].yesVotes = 1
    /\ peer.voters[1] = <<"addrA">>
    /\ hasVoted[1]["addrA"] /\ ~hasVoted[1]["addrB"]

(* ===================== server.js: GET /api/proposals ==================== *)

\* const totalProposals = 20;
totalProposals == 20

\* Transport failures of getProposal queries allowed within one request.
MaxFailures == 1

\* Keys of the ledger's mappings when the ledger holds more proposals than
\* the handler asks for.
ListIds == 0 .. (totalProposals + 2)
ListCounts == {0, 1, totalProposals, totalProposals + 1}
ListRequests == {"r1"}
EnvOutcomes == {"configured", "missing"}
QueryOutcomes == {"answered", "failed"}

\* calculateTimeLeft(deadlineTimestamp), the clock read in seconds.
calculateTimeLeft(deadlineTimestamp, clock) ==
    LET timeLeft == deadlineTimestamp - clock
        days == timeLeft \div (24 * 60 * 60)
        hours == (timeLeft % (24 * 60 * 60)) \div (60 * 60)
    IN  IF timeLeft <= 0 THEN <<"Expired">>
        ELSE IF days > 0 THEN <<days, IF days > 1 THEN "days left" ELSE "day left">>
        ELSE IF hours > 0 THEN <<hours, IF hours > 1 THEN "hours left" ELSE "hour left">>
        ELSE <<"Less than 1 hour left">>

\* The object pushed for an active proposal.
ProposalEntry(result, clock) ==
    [id |-> result.proposalId,
     title |-> IF result.parkName = "" THEN <<"Park Proposal #", result.proposalId>>
               ELSE <<result.parkName>>,
     description |-> IF result.message = "" THEN "No description provided"
                     ELSE result.message,
     location |-> <<"Park Size: ", result.parkSize, " sq ft">>,
     status |-> "Active Voting",
     votes |-> [yes |-> result.yesVotes, no |-> result.noVotes],
     timeLeft |-> calculateTimeLeft(result.deadline, clock),
     creator |-> result.creator,
     deadline |-> result.deadline,
     chatTopicHistory |-> result.chatTopicHistory,
     parkSize |-> result.parkSize]

NewListRequest ==
    [pc |-> "query", id |-> 1, proposals |-> <<>>, failed |-> {},
     startedAt |-> now, logAtStart |-> Len(events)]

\* What the ledger holds at the moment the response is sent.
ListAbout(req) ==
    [failed |-> req.failed, startedAt |-> req.startedAt, finishedAt |-> now,
     logAtStart |-> req.logAtStart, logAtEnd |-> Len(events),
     active |-> HederaGetActiveProposals(proposals, proposalCount, now).ret,
     tallies |-> [i \in ListIds |->
                    [yes |-> proposals[i].yesVotes, no |-> proposals[i].noVotes]]]

\* res.json({ success: true, proposals })
ListResponse(req) ==
    [status |-> 200, success |-> TRUE, proposals |-> req.proposals,
     about |-> ListAbout(req)]

\* res.status(500).json({ success: false, error: "Failed to fetch proposals" })
ListFailedResponse(req) ==
    [status |-> 500, success |-> FALSE, error |-> "Failed to fetch proposals",
     about |-> ListAbout(req)]

ListFrame == UNCHANGED <<peer, chatTopics, topics, topicMessages, script>>

\* From the arrival of the request to the first await query.execute(client);
\* the operator's credentials are parsed inside the outer try.
ListReceive(r, env) ==
    /\ requests[r] = Idle
    /\ IF env = "missing" THEN Respond(r, ListFailedResponse(NewListRequest))
       ELSE Goto(r, NewListRequest, "query")
    /\ UNCHANGED <<contract, now, last, ledgerVars>>
    /\ ListFrame

\* One turn of the loop: getProposal(id) answers, reverts or is lost; a
\* failure of either kind is caught and the loop continues.  After the turn
\* for id = totalProposals the response is sent.
ListQuery(r, outcome) ==
    LET req == requests[r]
        result == HederaGetProposal(proposals, now, req.id)
        pushed == IF outcome = "answered" /\ result.status = SUCCESS /\ result.ret.active
                  THEN Append(req.proposals, ProposalEntry(result.ret, now))
                  ELSE req.proposals
        next == [req EXCEPT !.proposals = pushed,
                            !.failed = IF outcome = "failed" THEN @ \cup {req.id} ELSE @,
                            !.id = @ + 1]
    IN  /\ req.pc = "query"
        /\ req.id <= totalProposals
        /\ outcome = "failed" => Cardinality(req.failed) < MaxFailures
        /\ IF next.id <= totalProposals THEN Goto(r, next, "query")
           ELSE Respond(r, ListResponse(next))
        /\ UNCHANGED <<contract, now, last, ledgerVars>>
        /\ ListFrame

\* Votes reaching the ledger while a listing is under way.
ListVote(b) ==
    /\ HederaVote(Operator, 1, b, Operator)
    /\ UNCHANGED <<peer, serverVars>>

ListAdvanceTime ==
    /\ AdvanceTime
    /\ UNCHANGED <<peer, serverVars>>

RECURSIVE CreatedBefore(_, _)
\* The log of n accepted createProposal calls, the first `early` of them
\* with the nearest deadline.
CreatedBefore(n, early) ==
    IF n = 0 THEN <<>>
    ELSE Append(CreatedBefore(n - 1, early),
                ProposalCreated(n, "Central Park", "Replace lawn", 120, "0.0.7001",
                                Operator, IF n <= early THEN 1 ELSE MaxTime))

\* A HederaVoting ledger on which n proposals were created earlier.
ListInit ==
    /\ peer = NoPeer
    /\ ServerInit
    /\ contract = "HederaVoting"
    /\ now = 1
    /\ \E n \in ListCounts, early \in {0, 1} :
         /\ proposalCount = n
         /\ events = CreatedBefore(n, early)
         /\ proposals =
              [i \in ListIds |->
                 IF 1 <= i /\ i <= n
                 THEN HederaNewProposal(i, "Central Park", "Replace lawn", 120,
                                        "0.0.7001", Operator,
                                        IF i <= early THEN 1 ELSE MaxTime)
                 ELSE EmptyProposal]
    /\ hasVoted = [i \in ListIds |-> [a \in Addresses |-> FALSE]]
    /\ voters = [i \in ListIds |-> <<>>]
    /\ last = [fn |-> "constructor", status |-> SUCCESS, args |-> NoArgs, ret |-> NoReturn]

ListNext ==
    \/ \E r \in ListRequests, env \in EnvOutcomes : ListReceive(r, env)
    \/ \E r \in ListRequests, outcome \in QueryOutcomes : ListQuery(r, outcome)
    \/ \E b \in BOOLEAN : ListVote(b)
    \/ ListAdvanceTime

ListSpec == ListInit /\ [][ListNext]_vars

\* The ledger was not touched and its clock did not move between the
\* arrival of the request and its response.
Quiet(a) ==
    /\ a.about.startedAt = a.about.finishedAt
    /\ a.about.logAtStart = a.about.logAtEnd

ListedIds(a) == [k \in 1 .. Len(a.proposals) |-> a.proposals[k].id]

\* C29: a successful response of GET /api/proposals lists, in ascending id
\* order, exactly the ids getActiveProposals() returns (less those whose
\* getProposal query failed), each with the ledger's tallies, whenever the
\* ledger did not change while the request was served.
\* (Violated: the handler asks for ids 1 .. 20 only, so the 21st proposal
\* is never listed.)
C29_ListsActiveProposals ==
    \A r \in ListRequests :
       \A k \in 1 .. Len(responses[r]) :
          LET a == responses[r][k]
          IN  (a.success /\ Quiet(a)) =>
                /\ Range(ListedIds(a)) = Range(a.about.active) \ a.about.failed
                /\ \A x, y \in 1 .. Len(a.proposals) :
                      x < y => a.proposals[x].id < a.proposals[y].id
                /\ \A x \in 1 .. Len(a.proposals) :
                      a.proposals[x].votes = a.about.tallies[a.proposals[x].id]
====
